---- MODULE Spec2Model ----
(***************************************************************************)
(* Model of scripts/lowpass_sweep.py: the batch driver main(), the frame  *)
(* loop of apply_time_varying_lowpass and the annotation writer write_csv. *)
(*                                                                         *)
(* Conventions of the model                                                *)
(*  - a name (directory name, stem, suffix) is a tuple of one-character    *)
(*    strings, so that split('-'), [:-2] and lower() act on characters;    *)
(*  - Python indices are 0-based: span [start, end) of a buffer is the     *)
(*    TLA+ index range start+1 .. end;                                     *)
(*  - a decoded sample is a positive integer identifying (row, channel);   *)
(*    0 is the value np.zeros_like puts in the result; a sample produced   *)
(*    by filtfilt is the tuple <<"lp", norm_cutoff, raw sample>>;          *)
(*  - frequencies of the cutoff trajectory are integers in 1/1000 Hz (the  *)
(*    floats of np.linspace, kept to three decimals); CSV values are       *)
(*    integers in 1/100 Hz (round(value, 2));                              *)
(*  - duration * fps is the exact rational len * fps / sr.                 *)
(***************************************************************************)
EXTENDS Integers, Sequences, FiniteSets, TLC

VARIABLES
    params,        \* scripts/raw/parameters.json as main() and write_csv() find it
    args,          \* argparse namespace: fps, overwrite
    inputDir,      \* "present" | "missing": the --input-dir on disk
    nested,        \* TRUE iff --output-dir is a direct sub-directory of --input-dir
    inputFiles,    \* files of the input tree (outside the output directory)
    outAudio,      \* output directory: <<name, suffix>> -> header of the audio written
    outCsv,        \* output directory: name -> CSV data rows
    run,           \* number of the current invocation of main()
    writes,        \* output paths written by the current invocation
    pc,            \* position of main()
    err,           \* exception that ended the invocation, "" if none
    start_cutoff,
    end_cutoff,
    audio_files,   \* sorted list returned by iter_audio_files
    idx,           \* position of the for loop of main() in audio_files
    audio,         \* buffer returned by sf.read
    sr,            \* sample rate returned by sf.read
    n_frames,
    cutoff_seq,
    filtered,      \* result buffer of apply_time_varying_lowpass
    i,             \* frame index of the loop of apply_time_varying_lowpass
    spans,         \* frames written into filtered so far: [i, start, end, how]
    designed,      \* frame indices for which scipy.signal.butter was called
    applied        \* frame indices for which scipy.signal.filtfilt was called

vars == <<params, args, inputDir, nested, inputFiles, outAudio, outCsv, run,
          writes, pc, err, start_cutoff, end_cutoff, audio_files, idx, audio,
          sr, n_frames, cutoff_seq, filtered, i, spans, designed, applied>>

---------------------------------------------------------------------------
(* Bounds of the model *)

MaxLen == 36       \* longest decoded file, in samples
MaxRuns == 2       \* invocations of main() on the same directories

(* Program constants *)

FrameRateDivisor == 75   \* frame_len = int(sr / 75)
MinFilterLen == 16       \* if len(segment) < 16: copy
ButterOrder == 4         \* scipy.signal.butter(4, ...)
ClampNum == 99           \* min(cutoff / nyq, 0.99)
ClampDen == 100

---------------------------------------------------------------------------
(* Arithmetic helpers *)

Min(a, b) == IF a <= b THEN a ELSE b

Max(a, b) == IF a >= b THEN a ELSE b

Abs(a) == IF a >= 0 THEN a ELSE -a

\* Python round() of the non-negative rational p / q: nearest integer, ties to even
RoundHalfEven(p, q) ==
    LET f == p \div q
        r == p % q
    IN  IF 2 * r < q THEN f
        ELSE IF 2 * r > q THEN f + 1
        ELSE IF f % 2 = 0 THEN f ELSE f + 1

\* round(float(value), 2) of a value in 1/1000 Hz, result in 1/100 Hz
\* (values are non-negative multiples of 1/1000; ties to even)
Round2(v) == RoundHalfEven(v, 10)

---------------------------------------------------------------------------
(* Names and paths *)

\* characters in ASCII order, for the comparison of paths by sorted()
Chars == <<"-", ".", "0", "1", "3", "4", "A", "V", "W", "_", "a", "b", "c", "d",
           "e", "f", "g", "i", "j", "k", "l", "m", "n", "o", "p", "r", "s", "t",
           "u", "v", "w", "x">>

Ord(c) == CHOOSE k \in 1..Len(Chars) : Chars[k] = c

\* str.lower() on one character
LowerChar(c) ==
    IF c = "A" THEN "a" ELSE IF c = "V" THEN "v" ELSE IF c = "W" THEN "w" ELSE c

Lower(s) == [k \in 1..Len(s) |-> LowerChar(s[k])]

SUPPORTED_AUDIO_EXTENSIONS ==
    { <<".", "w", "a", "v">>, <<".", "m", "p", "3">>, <<".", "f", "l", "a", "c">>,
      <<".", "a", "a", "c">>, <<".", "o", "g", "g">>, <<".", "m", "4", "a">>,
      <<".", "w", "m", "a">>, <<".", "a", "i", "f", "f">>, <<".", "a", "u">>,
      <<".", "r", "a">>, <<".", "3", "g", "p">>, <<".", "a", "m", "r">>,
      <<".", "a", "c", "3">>, <<".", "d", "t", "s">>, <<".", "a", "p", "e">>,
      <<".", "m", "k", "a">>, <<".", "o", "p", "u", "s">> }

\* strict lexicographic order of two character tuples (Python str <)
RECURSIVE StrLess(_, _)
StrLess(s, t) ==
    IF t = <<>> THEN FALSE
    ELSE IF s = <<>> THEN TRUE
    ELSE IF Ord(Head(s)) < Ord(Head(t)) THEN TRUE
    ELSE IF Ord(Head(s)) > Ord(Head(t)) THEN FALSE
    ELSE StrLess(Tail(s), Tail(t))

\* pathlib comparison of two files below the same root: by parts
PathLess(f, g) ==
    \/ StrLess(f.parent, g.parent)
    \/ f.parent = g.parent /\ StrLess(f.stem \o f.suffix, g.stem \o g.suffix)

\* sorted(S) for a set of files with distinct paths
RECURSIVE Sorted(_)
Sorted(S) ==
    IF S = {} THEN <<>>
    ELSE LET m == CHOOSE f \in S : \A g \in S \ {f} : PathLess(f, g)
         IN  <<m>> \o Sorted(S \ {m})

\* name of the output directory inside the input tree, when it is nested
OutDirName == <<"o">>

\* p.rglob("*") below root, files only: the input files and, when the output
\* directory lies inside the input tree, the audio files written there
\* (the CSV files do not pass the suffix filter and are left out of the walk)
TreeFiles ==
    IF inputDir = "missing" THEN {}
    ELSE inputFiles \cup
         (IF nested
          THEN { [parent |-> OutDirName, stem |-> k[1], suffix |-> k[2],
                  len |-> outAudio[k].len, sr |-> outAudio[k].sr, ch |-> outAudio[k].ch]
                 : k \in DOMAIN outAudio }
          ELSE {})

iter_audio_files ==
    Sorted({ p \in TreeFiles : Lower(p.suffix) \in SUPPORTED_AUDIO_EXTENSIONS })

\* f"{class_name}_{audio_path.stem}" : the stem of out_audio and of out_csv
OutStem(p) == p.parent \o <<"_">> \o p.stem

\* out_audio = output_dir / f"{class_name}_{audio_path.stem}{audio_path.suffix}"
OutAudioKey(p) == <<OutStem(p), p.suffix>>

\* out_csv = out_audio.with_suffix(".csv")
OutCsvKey(p) == OutStem(p)

---------------------------------------------------------------------------
(* Decoding, trajectory, filter primitives *)

\* sf.read(audio_path): len rows of ch channel samples, each a distinct
\* positive integer (a mono file decodes to a 1-D array: rows of one sample)
SfRead(p) == [k \in 1..p.len |-> [c \in 1..p.ch |-> (k - 1) * p.ch + c]]

\* n_frames = max(1, int(round(len(audio) / sr * args.fps)))
NFrames(len, rate, fps) == Max(1, RoundHalfEven(len * fps, rate))

\* np.linspace(start, stop, num), endpoint=True, start and stop in Hz,
\* result in 1/1000 Hz: y = arange(num) * step + start, then y[-1] = stop
LinspaceNoEndpoint(start, stop, num) ==
    [k \in 1..num |-> start * 1000 + ((k - 1) * (stop - start) * 1000) \div num]

Linspace(start, stop, num) ==
    LET div == num - 1
        y == [k \in 1..num |->
                 IF div > 0
                 THEN start * 1000 + ((k - 1) * (stop - start) * 1000) \div div
                 ELSE start * 1000]
    IN  IF num > 1 THEN [y EXCEPT ![num] = stop * 1000] ELSE y

\* np.zeros_like(audio): same rows, same channels, all zero
ZerosLikeMono(a) == [k \in 1..Len(a) |-> <<0>>]

ZerosLike(a) == [k \in 1..Len(a) |-> [c \in 1..Len(a[k]) |-> 0]]

\* frame_len = int(sr / 75)
FrameLen(rate) == rate \div FrameRateDivisor

\* start = i * frame_len
FrameStart(k, rate) == k * FrameLen(rate)

\* end = min((i + 1) * frame_len, len(audio))
FrameEnd(k, rate, len) == Min((k + 1) * FrameLen(rate), len)

\* len(segment) < 16
TooShortLoose(n) == n < 8

TooShort(n) == n < MinFilterLen

\* norm_cutoff = min(cutoff / nyq, 0.99) with nyq = sr / 2, as the fraction
\* <<numerator, denominator>>; cutoff in 1/1000 Hz
NormCutoff(cutoff, rate) ==
    IF 2 * cutoff * ClampDen >= ClampNum * rate * 1000
    THEN <<ClampNum, ClampDen>>
    ELSE <<2 * cutoff, rate * 1000>>

\* scipy.signal.butter(4, Wn, btype="low") raises ValueError unless 0 < Wn < 1
ButterRaises(wn) == ~(0 < wn[1] /\ wn[1] < wn[2])

\* scipy.signal.filtfilt(b, a, x) works along axis=-1 and raises ValueError
\* unless the length of that axis exceeds padlen = 3 * max(len(a), len(b));
\* for a 1-D segment the axis is the samples, for a 2-D one the channels
PadLen == 3 * (ButterOrder + 1)

FiltfiltRaises(rows, ch) == (IF ch = 1 THEN rows ELSE ch) <= PadLen

\* the samples filtfilt returns for one row of a segment
LowPassed(row, wn) == [c \in 1..Len(row) |-> <<"lp", wn, row[c]>>]

\* filtered[start:end] = values : rows start+1 .. end replaced
WriteSpan(buf, start, end, values) ==
    [k \in 1..Len(buf) |-> IF start < k /\ k <= end THEN values[k] ELSE buf[k]]

---------------------------------------------------------------------------
(* write_csv primitives *)

\* csv_path.stem.split('-')[0]
RECURSIVE BeforeDash(_)
BeforeDash(s) ==
    IF s = <<>> \/ Head(s) = "-" THEN <<>> ELSE <<Head(s)>> \o BeforeDash(Tail(s))

\* class_name[:-2]
DropLastTwo(s) == IF Len(s) <= 2 THEN <<>> ELSE SubSeq(s, 1, Len(s) - 2)

\* class_name as write_csv derives it from the CSV path
CsvClassName(stem) == DropLastTwo(BeforeDash(stem))

\* class_list.index(class_name) if class_name in class_list else -1
ClassIndex(name, class_list) ==
    IF \E k \in 1..Len(class_list) : class_list[k] = name
    THEN (CHOOSE k \in 1..Len(class_list) :
             /\ class_list[k] = name
             /\ \A j \in 1..(k - 1) : class_list[j] # name) - 1
    ELSE -1

\* the data rows written after the header: [class_index, round(float(value), 2)]
CsvRowsDropLast(class_index, seq) ==
    [k \in 1..(Len(seq) - 1) |-> <<class_index, Round2(seq[k])>>]

CsvRows(class_index, seq) ==
    [k \in 1..Len(seq) |-> <<class_index, Round2(seq[k])>>]

---------------------------------------------------------------------------
(* Initial states: what main() can find on disk and on its command line *)

ClassList == << <<"t">>, <<"j">> >>

CutoffPairs == { <<4000, 500>>, <<200, 4000>>, <<500, 0>>, <<0, 500>> }

SampleRates == {750, 1200}

FrameRates == {50, 75, 150}

\* the states of scripts/raw/parameters.json
ParamsOk(c) ==
    [file |-> "ok", has_parameter_2 |-> TRUE, has_classes |-> TRUE,
     classes |-> ClassList, start_cutoff |-> c[1], end_cutoff |-> c[2]]

ParamsBroken ==
    { [file |-> "missing", has_parameter_2 |-> FALSE, has_classes |-> FALSE,
       classes |-> <<>>, start_cutoff |-> 0, end_cutoff |-> 0],
      [file |-> "malformed", has_parameter_2 |-> FALSE, has_classes |-> FALSE,
       classes |-> <<>>, start_cutoff |-> 0, end_cutoff |-> 0],
      [file |-> "ok", has_parameter_2 |-> FALSE, has_classes |-> TRUE,
       classes |-> ClassList, start_cutoff |-> 0, end_cutoff |-> 0],
      [file |-> "ok", has_parameter_2 |-> TRUE, has_classes |-> FALSE,
       classes |-> <<>>, start_cutoff |-> 4000, end_cutoff |-> 500] }

File(parent, stem, suffix, len, rate, ch) ==
    [parent |-> parent, stem |-> stem, suffix |-> suffix,
     len |-> len, sr |-> rate, ch |-> ch]

\* the input trees of the batch scenarios; every audio file has header h
Trees(h) ==
    LET wav == <<".", "w", "a", "v">>
        t1 == File(<<"t">>, <<"1", "-", "a">>, wav, h[1], h[2], h[3])
        t2 == File(<<"t">>, <<"1", "-", "a">>, <<".", "f", "l", "a", "c">>, h[1], h[2], h[3])
        j1 == File(<<"j">>, <<"b", "0", "1">>, wav, h[1], h[2], h[3])
        u1 == File(<<"u">>, <<"1", "-", "a">>, <<".", "W", "A", "V">>, h[1], h[2], h[3])
        x1 == File(<<"t", "0", "1", "-", "x">>, <<"a">>, wav, h[1], h[2], h[3])
        n1 == File(<<"t">>, <<"n", "o", "t", "e", "s">>, <<".", "t", "x", "t">>, 0, 0, 0)
    IN  { {}, {n1}, {t1}, {t1, t2}, {j1, u1, n1}, {x1, t1} }

InitCommon ==
    /\ outAudio = <<>>
    /\ outCsv = <<>>
    /\ run = 1
    /\ writes = {}
    /\ pc = "main"
    /\ err = ""
    /\ start_cutoff = 0
    /\ end_cutoff = 0
    /\ audio_files = <<>>
    /\ idx = 0
    /\ audio = <<>>
    /\ sr = 0
    /\ n_frames = 0
    /\ cutoff_seq = <<>>
    /\ filtered = <<>>
    /\ i = 0
    /\ spans = <<>>
    /\ designed = {}
    /\ applied = {}

\* one conventional file, every header and frame rate, a well-formed configuration
InitAudio ==
    /\ \E c \in CutoffPairs : params = ParamsOk(c)
    /\ \E f \in FrameRates : args = [fps |-> f, overwrite |-> FALSE]
    /\ inputDir = "present"
    /\ nested = FALSE
    /\ \E len \in 1..MaxLen, rate \in SampleRates, ch \in {1, 2} :
          inputFiles = { File(<<"t">>, <<"1", "-", "a">>, <<".", "w", "a", "v">>,
                              len, rate, ch) }

\* every tree, configuration state, overwrite flag and directory layout, one header
InitBatch ==
    /\ params \in {ParamsOk(<<4000, 500>>)} \cup ParamsBroken
    /\ \E o \in BOOLEAN : args = [fps |-> 75, overwrite |-> o]
    /\ inputDir \in {"present", "missing"}
    /\ nested \in BOOLEAN
    /\ inputDir = "missing" => ~nested
    /\ \E h \in { <<20, 1200, 1>>, <<20, 750, 2>> } :
          inputFiles \in (IF inputDir = "missing" THEN {{}} ELSE Trees(h))

Init == InitCommon /\ (InitAudio \/ InitBatch)

---------------------------------------------------------------------------
(* main(): start-up *)

\* the file the for loop of main() is at
Cur == audio_files[idx]

\* lines 102-105 raise: open() on a missing file, json.load on a malformed
\* one, params["parameter_2"] on a document without the key
ConfigUnreadable ==
    \/ params.file # "ok"
    \/ ~params.has_parameter_2

\* lines 95-107: mkdir, read the cutoffs, list the input files
LoadConfig ==
    /\ pc = "main"
    /\ ~ConfigUnreadable
    /\ start_cutoff' = params.start_cutoff
    /\ end_cutoff' = params.end_cutoff
    /\ audio_files' = iter_audio_files
    /\ idx' = 1
    /\ pc' = "loop"
    /\ UNCHANGED <<params, args, inputDir, nested, inputFiles, outAudio, outCsv,
                   run, writes, err, audio, sr, n_frames, cutoff_seq, filtered,
                   i, spans, designed, applied>>

\* lines 102-105 raise before the input directory is listed
LoadConfigFail ==
    /\ pc = "main"
    /\ ConfigUnreadable
    /\ pc' = "crashed"
    /\ err' = (IF params.file = "missing" THEN "FileNotFoundError"
               ELSE IF params.file = "malformed" THEN "JSONDecodeError"
               ELSE "KeyError")
    /\ UNCHANGED <<params, args, inputDir, nested, inputFiles, outAudio, outCsv,
                   run, writes, start_cutoff, end_cutoff, audio_files, idx,
                   audio, sr, n_frames, cutoff_seq, filtered, i, spans,
                   designed, applied>>

---------------------------------------------------------------------------
(* main(): the loop over the files *)

\* out_audio.exists() for another file name (a check on the un-prefixed name)
OutAudioExistsUnprefixed(p) == <<p.stem, p.suffix>> \in DOMAIN outAudio

\* out_audio.exists()
OutAudioExists(p) == OutAudioKey(p) \in DOMAIN outAudio

\* line 113: if not args.overwrite and out_audio.exists()
SkipBranch(p) == ~args.overwrite /\ OutAudioExists(p)

\* lines 113-115
SkipExisting ==
    /\ pc = "loop"
    /\ idx <= Len(audio_files)
    /\ SkipBranch(Cur)
    /\ idx' = idx + 1
    /\ UNCHANGED <<params, args, inputDir, nested, inputFiles, outAudio, outCsv,
                   run, writes, pc, err, start_cutoff, end_cutoff, audio_files,
                   audio, sr, n_frames, cutoff_seq, filtered, i, spans,
                   designed, applied>>

\* lines 117-122 up to the entry of the frame loop (lines 54-56)
ReadAndPlan ==
    /\ pc = "loop"
    /\ idx <= Len(audio_files)
    /\ ~SkipBranch(Cur)
    /\ audio' = SfRead(Cur)
    /\ sr' = Cur.sr
    /\ n_frames' = NFrames(Cur.len, Cur.sr, args.fps)
    /\ cutoff_seq' = Linspace(start_cutoff, end_cutoff, n_frames')
    /\ filtered' = ZerosLike(audio')
    /\ i' = 0
    /\ spans' = <<>>
    /\ designed' = {}
    /\ applied' = {}
    /\ pc' = "frames"
    /\ UNCHANGED <<params, args, inputDir, nested, inputFiles, outAudio, outCsv,
                   run, writes, err, start_cutoff, end_cutoff, audio_files, idx>>

\* the for loop of main() is exhausted: main() returns
Finish ==
    /\ pc = "loop"
    /\ idx > Len(audio_files)
    /\ pc' = "done"
    /\ UNCHANGED <<params, args, inputDir, nested, inputFiles, outAudio, outCsv,
                   run, writes, err, start_cutoff, end_cutoff, audio_files, idx,
                   audio, sr, n_frames, cutoff_seq, filtered, i, spans,
                   designed, applied>>

---------------------------------------------------------------------------
(* apply_time_varying_lowpass: one iteration of the frame loop per action *)

start == FrameStart(i, sr)

end == FrameEnd(i, sr, Len(audio))

InFrame == pc = "frames" /\ i < n_frames

FilterFrame == <<params, args, inputDir, nested, inputFiles, outAudio, outCsv,
                 run, writes, start_cutoff, end_cutoff, audio_files, idx,
                 audio, sr, n_frames, cutoff_seq>>

\* lines 60-61: an empty frame is skipped
FrameEmpty ==
    /\ InFrame
    /\ end <= start
    /\ i' = i + 1
    /\ UNCHANGED <<FilterFrame, pc, err, filtered, spans, designed, applied>>

\* lines 64-66: a short frame is copied
FrameShort ==
    /\ InFrame
    /\ end > start
    /\ TooShort(end - start)
    /\ filtered' = WriteSpan(filtered, start, end, audio)
    /\ spans' = Append(spans, [i |-> i, start |-> start, end |-> end, how |-> "short"])
    /\ i' = i + 1
    /\ UNCHANGED <<FilterFrame, pc, err, designed, applied>>

\* lines 67-70: butter raises ValueError, outside the try block
FrameDesignFail ==
    /\ InFrame
    /\ end > start
    /\ ~TooShort(end - start)
    /\ ButterRaises(NormCutoff(cutoff_seq[i + 1], sr))
    /\ designed' = designed \cup {i}
    /\ pc' = "crashed"
    /\ err' = "ValueError"
    /\ UNCHANGED <<FilterFrame, filtered, i, spans, applied>>

\* lines 67-72: the frame is filtered
FrameFiltered ==
    /\ InFrame
    /\ end > start
    /\ ~TooShort(end - start)
    /\ LET wn == NormCutoff(cutoff_seq[i + 1], sr)
       IN  /\ ~ButterRaises(wn)
           /\ ~FiltfiltRaises(end - start, Len(audio[1]))
           /\ filtered' = WriteSpan(filtered, start, end,
                                    [k \in 1..Len(audio) |-> LowPassed(audio[k], wn)])
    /\ designed' = designed \cup {i}
    /\ applied' = applied \cup {i}
    /\ spans' = Append(spans, [i |-> i, start |-> start, end |-> end, how |-> "filtered"])
    /\ i' = i + 1
    /\ UNCHANGED <<FilterFrame, pc, err>>

\* lines 71-74: filtfilt raises ValueError, the frame is copied
FrameFilterError ==
    /\ InFrame
    /\ end > start
    /\ ~TooShort(end - start)
    /\ ~ButterRaises(NormCutoff(cutoff_seq[i + 1], sr))
    /\ FiltfiltRaises(end - start, Len(audio[1]))
    /\ filtered' = WriteSpan(filtered, start, end, audio)
    /\ designed' = designed \cup {i}
    /\ applied' = applied \cup {i}
    /\ spans' = Append(spans, [i |-> i, start |-> start, end |-> end, how |-> "fallback"])
    /\ i' = i + 1
    /\ UNCHANGED <<FilterFrame, pc, err>>

\* line 75: return filtered
Return ==
    /\ pc = "frames"
    /\ i = n_frames
    /\ pc' = "returned"
    /\ UNCHANGED <<FilterFrame, err, filtered, i, spans, designed, applied>>

---------------------------------------------------------------------------
(* main(): the outputs of one file *)

\* line 123: sf.write(out_audio, filtered, sr)
WriteAudio ==
    /\ pc = "returned"
    /\ outAudio' = [k \in DOMAIN outAudio \cup {OutAudioKey(Cur)} |->
                       IF k = OutAudioKey(Cur)
                       THEN [len |-> Len(filtered), sr |-> sr, ch |-> Len(filtered[1])]
                       ELSE outAudio[k]]
    /\ writes' = writes \cup {<<"audio", OutAudioKey(Cur)>>}
    /\ pc' = "write_csv"
    /\ UNCHANGED <<params, args, inputDir, nested, inputFiles, outCsv, run, err,
                   start_cutoff, end_cutoff, audio_files, idx, audio, sr,
                   n_frames, cutoff_seq, filtered, i, spans, designed, applied>>

\* lines 83-86 raise: the configuration read again by write_csv
ClassListUnreadable ==
    \/ params.file # "ok"
    \/ ~params.has_classes

\* line 124: write_csv(out_csv, cutoff_seq), lines 78-92
write_csv ==
    /\ pc = "write_csv"
    /\ ~ClassListUnreadable
    /\ LET class_name == CsvClassName(OutCsvKey(Cur))
           class_index == ClassIndex(class_name, params.classes)
       IN  outCsv' = [k \in DOMAIN outCsv \cup {OutCsvKey(Cur)} |->
                         IF k = OutCsvKey(Cur)
                         THEN CsvRows(class_index, cutoff_seq)
                         ELSE outCsv[k]]
    /\ writes' = writes \cup {<<"csv", OutCsvKey(Cur)>>}
    /\ pc' = "report"
    /\ UNCHANGED <<params, args, inputDir, nested, inputFiles, outAudio, run, err,
                   start_cutoff, end_cutoff, audio_files, idx, audio, sr,
                   n_frames, cutoff_seq, filtered, i, spans, designed, applied>>

\* lines 83-86 raise before the CSV file is opened
WriteCsvFail ==
    /\ pc = "write_csv"
    /\ ClassListUnreadable
    /\ pc' = "crashed"
    /\ err' = "KeyError"
    /\ UNCHANGED <<params, args, inputDir, nested, inputFiles, outAudio, outCsv,
                   run, writes, start_cutoff, end_cutoff, audio_files, idx,
                   audio, sr, n_frames, cutoff_seq, filtered, i, spans,
                   designed, applied>>

\* line 125, then the next file
Report ==
    /\ pc = "report"
    /\ idx' = idx + 1
    /\ pc' = "loop"
    /\ UNCHANGED <<params, args, inputDir, nested, inputFiles, outAudio, outCsv,
                   run, writes, err, start_cutoff, end_cutoff, audio_files,
                   audio, sr, n_frames, cutoff_seq, filtered, i, spans,
                   designed, applied>>

\* the script is started again on the same directories after a completed run
Rerun ==
    /\ pc = "done"
    /\ run < MaxRuns
    /\ run' = run + 1
    /\ \E o \in BOOLEAN : args' = [args EXCEPT !.overwrite = o]
    /\ writes' = {}
    /\ pc' = "main"
    /\ start_cutoff' = 0
    /\ end_cutoff' = 0
    /\ audio_files' = <<>>
    /\ idx' = 0
    /\ audio' = <<>>
    /\ sr' = 0
    /\ n_frames' = 0
    /\ cutoff_seq' = <<>>
    /\ filtered' = <<>>
    /\ i' = 0
    /\ spans' = <<>>
    /\ designed' = {}
    /\ applied' = {}
    /\ UNCHANGED <<params, inputDir, nested, inputFiles, outAudio, outCsv, err>>

Next ==
    \/ LoadConfig
    \/ LoadConfigFail
    \/ SkipExisting
    \/ ReadAndPlan
    \/ Finish
    \/ FrameEmpty
    \/ FrameShort
    \/ FrameDesignFail
    \/ FrameFiltered
    \/ FrameFilterError
    \/ Return
    \/ WriteAudio
    \/ write_csv
    \/ WriteCsvFail
    \/ Report
    \/ Rerun

Spec == Init /\ [][Next]_vars

---------------------------------------------------------------------------
(* Properties *)

\* the frame loop of the current file has run (some or all of its iterations)
InFilter == pc \in {"frames", "returned"}

\* frame k of the current file as lines 58-59 compute it
SpanOf(k) == [start |-> FrameStart(k, sr), end |-> FrameEnd(k, sr, Len(audio))]

\* rows start+1 .. end of the result are the raw rows of the input
Copied(s) == \A k \in (s.start + 1)..s.end : filtered[k] = audio[k]

\* C1: when apply_time_varying_lowpass returns, the spans it wrote tile
\* [0, len(audio)): they are pairwise disjoint, every sample index lies in
\* one of them, and no sample of the result is left at its initial zero.
C1_FrameSpansTileBuffer ==
    pc = "returned" =>
        /\ \A j, k \in 1..Len(spans) :
              j # k => (spans[j].end <= spans[k].start \/ spans[k].end <= spans[j].start)
        /\ \A x \in 1..Len(audio) :
              \E j \in 1..Len(spans) : spans[j].start < x /\ x <= spans[j].end
        /\ \A x \in 1..Len(filtered) : \A c \in 1..Len(filtered[x]) : filtered[x][c] # 0

\* C2: the trajectory built for a file has length max(1, round(d * f)), the
\* nearest integer to len * fps / sr and at least 1; a trajectory longer
\* than 1 starts at start_cutoff and ends at end_cutoff, a trajectory of
\* length 1 holds start_cutoff.
C2_TrajectoryLengthAndEndpoints ==
    pc \in {"frames", "returned", "write_csv", "report"} =>
        LET n == Len(cutoff_seq)
            q == Len(audio) * args.fps
        IN  /\ n = n_frames
            /\ n >= 1
            /\ 2 * q < sr => n = 1
            /\ 2 * q >= sr => 2 * Abs(n * sr - q) <= sr
            /\ n > 1 => /\ cutoff_seq[1] = start_cutoff * 1000
                        /\ cutoff_seq[n] = end_cutoff * 1000
            /\ n = 1 => cutoff_seq[1] = start_cutoff * 1000

C2_Witness ==
    /\ pc = "returned"
    /\ Len(cutoff_seq) > 2
    /\ cutoff_seq[1] # cutoff_seq[Len(cutoff_seq)]

\* C3: the CSV written for a processed file has one data row per element of
\* the trajectory passed to the filter, in trajectory order (row k carries
\* element k rounded to two decimals), whatever happened to the frames.
C3_CsvRowPerTrajectoryElement ==
    pc = "report" =>
        LET rows == outCsv[OutCsvKey(Cur)]
        IN  /\ Len(rows) = Len(cutoff_seq)
            /\ \A k \in 1..Len(rows) : Abs(10 * rows[k][2] - cutoff_seq[k]) <= 5

C3_Witness ==
    /\ pc = "report"
    /\ Len(cutoff_seq) > 1
    /\ Len(spans) < n_frames
    /\ \E j \in 1..Len(spans) : spans[j].how = "short"
    /\ \E j \in 1..Len(spans) : spans[j].how = "fallback"

\* the fatal start-up conditions of the driver
FatalStartup ==
    \/ inputDir = "missing"
    \/ iter_audio_files = <<>>
    \/ params.file # "ok"
    \/ ~params.has_parameter_2
    \/ ~params.has_classes

\* C4: a run that meets a fatal start-up condition (missing input directory,
\* no input file, missing or malformed configuration, missing class list)
\* has written no output audio and no CSV.
C4_FatalStartupWritesNothing == FatalStartup => writes = {}

\* C5: a frame whose filter design fails is copied raw into the result and
\* the failure does not end the run.
C5_DesignFailureRecovered ==
    \A k \in designed :
        ButterRaises(NormCutoff(cutoff_seq[k + 1], sr)) =>
            /\ pc # "crashed"
            /\ \E j \in 1..Len(spans) : spans[j].i = k /\ Copied(spans[j])

\* C6: a run started with overwrite disabled after a completed run on the
\* same directories writes no file.
C6_RerunWritesNothing ==
    (run > 1 /\ ~args.overwrite) => writes = {}

\* C6 (amended): the same when the output directory lies outside the input
\* tree: no file is written and no file leaves the skip branch.
C6_RerunWritesNothingOutsideTree ==
    (run > 1 /\ ~args.overwrite /\ ~nested) =>
        /\ writes = {}
        /\ pc \in {"main", "loop", "done"}

C6_Witness ==
    /\ run = 2
    /\ ~args.overwrite
    /\ ~nested
    /\ pc = "done"
    /\ Len(audio_files) >= 2
    /\ \A k \in 1..Len(audio_files) : OutAudioKey(audio_files[k]) \in DOMAIN outAudio

\* C7: the CSV of a file whose parent directory is not in the class list has
\* class_index = -1 in every data row.
C7_UnknownParentGivesMinusOne ==
    (pc = "report" /\ \A k \in 1..Len(params.classes) : params.classes[k] # Cur.parent) =>
        \A k \in 1..Len(outCsv[OutCsvKey(Cur)]) : outCsv[OutCsvKey(Cur)][k][1] = -1

\* C8: frame i starts at i * floor(sr / fps) and every written frame but the
\* last has length floor(sr / fps).
C8_FrameLengthFromFps ==
    \A j \in 1..Len(spans) :
        /\ spans[j].start = spans[j].i * (sr \div args.fps)
        /\ j < Len(spans) => spans[j].end - spans[j].start = sr \div args.fps

\* C9: during and after the frame loop the result has as many rows as the
\* input and each row as many channels, and the input still is what was read.
C9_SameShapeInputUntouched ==
    InFilter =>
        /\ Len(filtered) = Len(audio)
        /\ \A k \in 1..Len(audio) : Len(filtered[k]) = Len(audio[k])
        /\ audio = SfRead(Cur)

C9_Witness ==
    /\ pc = "returned"
    /\ Len(audio[1]) = 2
    /\ Len(audio) > MinFilterLen
    /\ spans # <<>>

\* C10: every processed frame that is non-empty and shorter than 16 samples
\* is in the result unchanged, and neither butter nor filtfilt was called
\* for it.
C10_ShortFrameCopiedUnfiltered ==
    InFilter =>
        \A k \in 0..(i - 1) :
            (SpanOf(k).end > SpanOf(k).start /\ SpanOf(k).end - SpanOf(k).start < 16) =>
                /\ Copied(SpanOf(k))
                /\ k \notin designed
                /\ k \notin applied

C10_Witness ==
    /\ pc = "returned"
    /\ \E k \in 0..(i - 1) :
          /\ SpanOf(k).end > SpanOf(k).start
          /\ SpanOf(k).end - SpanOf(k).start < 16
    /\ applied # {}

====
